---------------------------- MODULE Spec2Model ----------------------------
(***************************************************************************)
(* Model of the Express proxy of server.js (src/unnamed/part_000): the two *)
(* endpoints POST /api/chat and POST /api/chat-sync, the three provider    *)
(* adapters, and the SSE relay loop of streamOpenAICompletion; and of the   *)
(* page's reader of /api/chat, requestModelStream of app.js                *)
(* (src/app_Version2.js).                                                  *)
(*                                                                         *)
(* Text on the wire is a sequence of symbols.  An ASCII symbol stands for  *)
(* the run of ASCII bytes written in its name ("data:", "[DONE]", "Hel");  *)
(* "SP", "LF" and "CR" are the bytes 0x20, 0x0A and 0x0D.  The two bytes   *)
(* "C3" "A9" are the UTF-8 encoding of the single character "U+00E9".      *)
(* JSON documents are written in a compact notation:                       *)
(*     "{"   for   {"choices":[{                                           *)
(*     "d"   for   "delta":{"content":" ... "}       (text follows)        *)
(*     "d0"  for   "delta":{}                        (no content member)   *)
(*     "m"   for   "message":{"content":" ... "}     (text follows)        *)
(*     "}"   for   }]}                                                     *)
(* so that <<"{","d","Hel","}">> is {"choices":[{"delta":{"content":       *)
(* "Hel"}}]}.                                                              *)
(***************************************************************************)
EXTENDS Integers, Sequences, FiniteSets, TLC

\* ------------------------------------------------------------------ bounds

\* Greatest number of catalogue segments in one provider stream.
MaxSegs == 3

\* Greatest number of bytes in one provider stream.
MaxBytes == 21

\* Request slots.  Spec serves slot 1 only, ConcSpec both.
Reqs == {1, 2}

\* ------------------------------------------------------- sequence helpers

Last(s) == s[Len(s)]

\* The element of a singleton.  Only({e(x) : x \in {v}}) is e(v) with v
\* evaluated once, whatever the evaluation strategy: a local constant.
Only(S) == CHOOSE x \in S : TRUE

Front(s) == SubSeq(s, 1, Len(s) - 1)

Drop(s, k) == SubSeq(s, k + 1, Len(s))

RECURSIVE Flatten(_)
Flatten(ss) == IF ss = <<>> THEN <<>> ELSE Head(ss) \o Flatten(Tail(ss))

\* split('').reverse().join('')
Reverse(s) == [i \in 1..Len(s) |-> s[Len(s) + 1 - i]]

\* String.prototype.slice(0, n)
Slice0(s, n) == SubSeq(s, 1, IF Len(s) < n THEN Len(s) ELSE n)

\* ------------------------------------------------- TextDecoder (UTF-8)

\* decoder.decode(value, { stream: true }): a lead byte at the end of a read
\* is held back until the next read; a lead byte followed by anything but its
\* continuation, and a lone continuation byte, decode to U+FFFD.
RECURSIVE DecodeFrom(_, _, _)
DecodeFrom(pend, bytes, acc) ==
  IF bytes = <<>> THEN [chars |-> acc, pending |-> pend]
  ELSE LET b == Head(bytes) IN
       IF pend # <<>>
       THEN IF b = "A9"
            THEN DecodeFrom(<<>>, Tail(bytes), Append(acc, "U+00E9"))
            ELSE DecodeFrom(<<>>, bytes, Append(acc, "U+FFFD"))
       ELSE IF b = "C3" THEN DecodeFrom(<<b>>, Tail(bytes), acc)
       ELSE IF b = "A9" THEN DecodeFrom(<<>>, Tail(bytes), Append(acc, "U+FFFD"))
       ELSE DecodeFrom(<<>>, Tail(bytes), Append(acc, b))

\* decoder.decode(value): an incomplete character at the end of the read is
\* flushed as U+FFFD and the decoder is reset.
DecodeNoStream(pend, bytes) ==
  LET d == DecodeFrom(<<>>, bytes, <<>>) IN
  [chars |-> IF d.pending = <<>> THEN d.chars ELSE Append(d.chars, "U+FFFD"),
   pending |-> <<>>]

Decode(pend, bytes) == DecodeFrom(pend, bytes, <<>>)

\* ------------------------------------------------------- String.split

\* buf.split(/\n\n/): leftmost, non-overlapping matches; always at least one
\* part, the last one being what follows the last delimiter.
RECURSIVE SplitFramesFrom(_, _, _)
SplitFramesFrom(s, cur, acc) ==
  IF s = <<>> THEN Append(acc, cur)
  ELSE IF Len(s) >= 2 /\ s[1] = "LF" /\ s[2] = "LF"
       THEN SplitFramesFrom(Drop(s, 2), <<>>, Append(acc, cur))
       ELSE SplitFramesFrom(Tail(s), Append(cur, Head(s)), acc)

SplitFrames(s) == SplitFramesFrom(s, <<>>, <<>>)

\* part.split(/\r?\n/)
RECURSIVE SplitLinesFrom(_, _, _)
SplitLinesFrom(s, cur, acc) ==
  IF s = <<>> THEN Append(acc, cur)
  ELSE IF Len(s) >= 2 /\ s[1] = "CR" /\ s[2] = "LF"
       THEN SplitLinesFrom(Drop(s, 2), <<>>, Append(acc, cur))
  ELSE IF s[1] = "LF"
       THEN SplitLinesFrom(Tail(s), <<>>, Append(acc, cur))
       ELSE SplitLinesFrom(Tail(s), Append(cur, Head(s)), acc)

SplitLines(s) == SplitLinesFrom(s, <<>>, <<>>)

\* ------------------------------------------------------- data lines

\* Characters matched by \s
White == {"SP", "CR", "LF"}

\* line.startsWith('data:')
StartsWithData(line) == line # <<>> /\ line[1] = "data:"

RECURSIVE StripWhite(_)
StripWhite(s) == IF s # <<>> /\ Head(s) \in White THEN StripWhite(Tail(s)) ELSE s

\* line.replace(/^data:\s*/, '')
StripData(line) == IF StartsWithData(line) THEN StripWhite(Tail(line)) ELSE line

\* The termination sentinel, '[DONE]'
Sentinel == <<"[DONE]">>

\* ------------------------------------------------------- JSON.parse

\* Characters of a JSON string in the compact notation.
TextChars == {"Hel", "lo", "U+00E9", "U+FFFD"}

IsText(s) == \A i \in 1..Len(s) : s[i] \in TextChars

RECURSIVE TextRun(_)
TextRun(s) == IF s # <<>> /\ Head(s) \in TextChars THEN <<Head(s)>> \o TextRun(Tail(s)) ELSE <<>>

Absent == [present |-> FALSE, val |-> <<>>]

Present(t) == [present |-> TRUE, val |-> t]

ParseFail == [ok |-> FALSE, delta |-> Absent, message |-> Absent]

\* The members between "{" and "}": an optional delta, then an optional
\* message.  The delta and message fields of the result are delta?.content
\* and message?.content: absent when the object or its content member is.
ParseMembers(m) ==
  IF m = <<>> THEN [ok |-> TRUE, delta |-> Absent, message |-> Absent]
  ELSE IF Head(m) = "d0"
       THEN Only({
              IF rest = <<>>
              THEN [ok |-> TRUE, delta |-> Absent, message |-> Absent]
              ELSE IF Head(rest) = "m" /\ IsText(Tail(rest))
                   THEN [ok |-> TRUE, delta |-> Absent, message |-> Present(Tail(rest))]
                   ELSE ParseFail
              : rest \in {Tail(m)}})
  ELSE IF Head(m) = "d"
       THEN Only({
              Only({
                IF rest = <<>>
                THEN [ok |-> TRUE, delta |-> Present(t), message |-> Absent]
                ELSE IF Head(rest) = "m" /\ IsText(Tail(rest))
                     THEN [ok |-> TRUE, delta |-> Present(t), message |-> Present(Tail(rest))]
                     ELSE ParseFail
                : rest \in {Drop(m, 1 + Len(t))}})
              : t \in {TextRun(Tail(m))}})
  ELSE IF Head(m) = "m" /\ IsText(Tail(m))
       THEN [ok |-> TRUE, delta |-> Absent, message |-> Present(Tail(m))]
       ELSE ParseFail

\* JSON.parse(payload), as far as the relay looks at the result: leading and
\* trailing white space is allowed, anything else that is not one object in
\* the compact notation is a SyntaxError (ok = FALSE).
ParseJSON(payload) ==
  Only({
    IF Len(t) >= 2 /\ t[1] = "{" /\ Last(t) = "}"
    THEN Only({ParseMembers(m) : m \in {SubSeq(t, 2, Len(t) - 1)}})
    ELSE ParseFail
    : t \in {Reverse(StripWhite(Reverse(StripWhite(payload))))}})

\* The fallback written with || : taken for an empty delta text as well.
ExtractTextOr(parsed) ==
  IF parsed.delta.present /\ parsed.delta.val # <<>> THEN parsed.delta.val
  ELSE IF parsed.message.present THEN parsed.message.val
  ELSE <<>>

\* const delta = parsed.choices?.[0]?.delta;
\* const text = delta?.content ?? parsed.choices?.[0]?.message?.content;
\* undefined is rendered as the empty text: both are falsy.
ExtractText(parsed) ==
  IF parsed.delta.present THEN parsed.delta.val
  ELSE IF parsed.message.present THEN parsed.message.val
  ELSE <<>>

\* ------------------------------------------------------- the response

\* A fresh http.ServerResponse.  writes are the arguments of the res.write
\* calls in order, endData the argument of res.end(data), json the value
\* sent by res.json.  endCalls counts the invocations of the close operation
\* (res.end, directly or through res.json); writeAfterEnd records a res.write
\* made on an ended response.
NoJson == [kind |-> "none", val |-> <<>>]

FreshRes ==
  [statusCode |-> 200, headersSent |-> FALSE, ctype |-> "none",
   writes |-> <<>>, endData |-> <<>>, json |-> NoJson,
   ended |-> FALSE, endCalls |-> 0, writeAfterEnd |-> FALSE]

\* res.status(code)
ResStatus(res, code) == IF res.headersSent THEN res ELSE [res EXCEPT !.statusCode = code]

\* Setting the header and flushing the head at once.
ResSetTypeFlush(res, ctype) ==
  IF res.headersSent THEN res ELSE [res EXCEPT !.ctype = ctype, !.headersSent = TRUE]

\* res.setHeader('Content-Type', ctype)
ResSetType(res, ctype) == IF res.headersSent THEN res ELSE [res EXCEPT !.ctype = ctype]

\* res.write(text): the first write commits status and headers.
ResWrite(res, text) ==
  IF res.ended THEN [res EXCEPT !.writeAfterEnd = TRUE]
  ELSE [res EXCEPT !.writes = Append(@, text), !.headersSent = TRUE]

\* res.end(data): a no-op on a response that is already ended.
ResEndWith(res, data) ==
  IF res.ended THEN [res EXCEPT !.endCalls = @ + 1]
  ELSE [res EXCEPT !.endData = data, !.ended = TRUE, !.headersSent = TRUE,
                   !.endCalls = @ + 1]

\* res.end()
ResEnd(res) == ResEndWith(res, <<>>)

\* res.json(obj), obj being { error: val } or { text: val }
ResJson(res, kind, val) ==
  IF res.ended THEN [res EXCEPT !.endCalls = @ + 1]
  ELSE [res EXCEPT !.ctype = "application/json", !.json = [kind |-> kind, val |-> val],
                   !.ended = TRUE, !.headersSent = TRUE, !.endCalls = @ + 1]

\* ------------------------------------------------------- the relay loop

\* The sentinel ends the response without leaving the loop.
OnSentinelNoReturn(rs) == [res |-> ResEnd(rs.res), returned |-> FALSE]

\* if (payload === '[DONE]') { res.end(); return; }
OnSentinel(rs) == [res |-> ResEnd(rs.res), returned |-> TRUE]

\* A parse error leaves the function instead of skipping the line.
OnParseErrorAbort(rs) == [rs EXCEPT !.returned = TRUE]

\* catch (err) { /* ignore JSON parse errors */ }
OnParseError(rs) == rs

\* Each fragment written twice.
EmitTwice(rs, text) ==
  IF text # <<>> THEN [rs EXCEPT !.res = ResWrite(ResWrite(@, text), text)] ELSE rs

\* if (text) { res.write(text); }
Emit(rs, text) == IF text # <<>> THEN [rs EXCEPT !.res = ResWrite(@, text)] ELSE rs

\* The loop body run for every line, also after the function has returned.
ProcessLineIgnoreReturn(rs, line) ==
  IF ~StartsWithData(line) THEN rs
  ELSE IF StripData(line) = Sentinel THEN OnSentinel(rs)
  ELSE IF ParseJSON(StripData(line)).ok
       THEN Emit(rs, ExtractText(ParseJSON(StripData(line))))
       ELSE OnParseError(rs)

\* The body of `for (const line of lines)`; rs.returned says that the
\* function has returned, which ends both loops.
ProcessLine(rs, line) ==
  IF rs.returned \/ ~StartsWithData(line) THEN rs
  ELSE Only({
         IF payload = Sentinel THEN OnSentinel(rs)
         ELSE Only({
                IF parsed.ok
                THEN Only({Emit(rs, text) : text \in {ExtractText(parsed)}})
                ELSE OnParseError(rs)
                : parsed \in {ParseJSON(payload)}})
         : payload \in {StripData(line)}})

RECURSIVE ProcessLines(_, _)
ProcessLines(rs, lines) ==
  IF lines = <<>> THEN rs
  ELSE Only({ProcessLines(next, rest)
             : next \in {ProcessLine(rs, Head(lines))}, rest \in {Tail(lines)}})

\* for (const part of parts) { const lines = part.split(/\r?\n/); ... }
RECURSIVE ProcessParts(_, _)
ProcessParts(rs, parts) ==
  IF parts = <<>> THEN rs
  ELSE Only({ProcessParts(next, rest)
             : next \in {Only({ProcessLines(rs, lines) : lines \in {SplitLines(Head(parts))}})},
               rest \in {Tail(parts)}})

\* buf = parts.pop() ?? ''
Retain(parts) == Last(parts)

\* One iteration of `while (true)` after reader.read() returned a chunk.
RelayRead(st, chunk) ==
  Only({
    Only({
      Only({
        [buf |-> Retain(parts), pending |-> d.pending, res |-> rs.res,
         returned |-> rs.returned]
        : rs \in {ProcessParts([res |-> st.res, returned |-> FALSE], Front(parts))}})
      : parts \in {SplitFrames(st.buf \o d.chars)}})
    : d \in {Decode(st.pending, chunk)}})

\* At the end of the stream the retained buffer is treated as a last frame.
OnDoneFlush(st) ==
  [st EXCEPT !.res = ProcessParts([res |-> st.res, returned |-> FALSE], <<st.buf>>).res,
             !.buf = <<>>]

\* if (done) break;  nothing is done with buf or the decoder.
OnDone(st) == st

\* A finally block that does not end the response.
FinallyNothing(res) == res

\* finally { try { res.end(); } catch (e) {} }
Finally(res) == ResEnd(res)

\* ------------------------------------------------------- the provider

\* data: {"choices":[{"delta":{"content":"Hel"}}]}
LineHel == <<"data:", "SP", "{", "d", "Hel", "}">>

\* data:{"choices":[{"message":{"content":"\u00e9"}}]}, the character in two bytes
LineMsg == <<"data:", "{", "m", "C3", "A9", "}">>

\* data: [DONE]
LineDone == <<"data:", "SP", "[DONE]">>

\* A data line whose JSON payload is cut short.
LineBad == <<"data:", "{", "d">>

Lines == {LineHel, LineMsg, LineDone, LineBad}

\* A line followed by the frame delimiter, or by one newline.
Segments == {l \o t : l \in Lines, t \in {<<"LF", "LF">>, <<"LF">>}}

RECURSIVE StreamsOf(_)
StreamsOf(k) ==
  IF k = 0 THEN {<<>>}
  ELSE LET shorter == StreamsOf(k - 1) IN
       shorter \cup {s \o g : s \in shorter, g \in Segments}

\* The bodies a streaming provider response may carry.
Streams == {s \in StreamsOf(MaxSegs) : Len(s) <= MaxBytes}

\* Greatest number of frames in a body of the delta family.
MaxDeltaFrames == 2

\* data: {"choices":[{"delta":{"content":""},"message":{"content":"lo"}}]}
LineEmptyDelta == <<"data:", "SP", "{", "d", "m", "lo", "}">>

\* data: {"choices":[{"delta":{},"message":{"content":"lo"}}]}
LineNoContent == <<"data:", "SP", "{", "d0", "m", "lo", "}">>

\* data:{"choices":[{"delta":{"content":"Hel"},"message":{"content":"lo"}}]}
LineBoth == <<"data:", "{", "d", "Hel", "m", "lo", "}">>

\* data:{"choices":[{"message":{"content":"lo"}}]}
LineMsgOnly == <<"data:", "{", "m", "lo", "}">>

\* data:{"choices":[{}]}
LineNeither == <<"data:", "{", "}">>

DeltaLines == {LineHel, LineEmptyDelta, LineNoContent, LineBoth, LineMsgOnly, LineNeither}

RECURSIVE DeltaStreamsOf(_)
DeltaStreamsOf(k) ==
  IF k = 0 THEN {<<>>}
  ELSE LET shorter == DeltaStreamsOf(k - 1) IN
       shorter \cup {s \o l \o <<"LF", "LF">> : s \in shorter, l \in DeltaLines}

\* Bodies of whole frames whose payloads carry a delta text, a message text,
\* both or neither.
DeltaStreams == DeltaStreamsOf(MaxDeltaFrames)

\* Two bodies for two requests in flight at once: fragments and the
\* sentinel; a fragment and an unterminated malformed line.
PairStreams ==
  {LineHel \o <<"LF", "LF">> \o LineMsg \o <<"LF", "LF">> \o LineDone \o <<"LF", "LF">>,
   LineMsg \o <<"LF", "LF">> \o LineBad \o <<"LF">>}

\* The bodies of the family `family`.
Bodies(family) ==
  IF family = "pair" THEN PairStreams
  ELSE IF family = "delta" THEN DeltaStreams
  ELSE Streams

\* Statuses of a provider response.
ProviderStatuses == {200, 401, 500}

IsOk(s) == s >= 200 /\ s <= 299

\* Texts a provider returns in a full (non-streamed) JSON response; the
\* empty text is what a missing field is read as.
Answers == {<<>>, <<"Hel", "lo">>}

\* ------------------------------------------------------- requests

Endpoints == {"chat", "sync"}

\* The model ids a request may name; "" is an absent or empty field.
Models == {"", "chatgpt", "googleai", "copilot"}

\* The prompts a request may carry; <<>> is an absent or empty field.
Prompts == {<<>>, <<"H", "i">>}

NoReq == [endpoint |-> "none", model |-> "", prompt |-> <<>>]

\* Only the model field is looked at.
MissingModelOnly(m, p) == m = ""

\* if (!model || !prompt)
Missing(m, p) == m = "" \/ p = <<>>

\* max_tokens / slice(0, 800)
SliceMax == 800

\* The reversed prompt, not truncated.
ReversedWhole(prompt) == Reverse(prompt)

\* prompt.split('').reverse().join('').slice(0, 800)
Reversed(prompt) == Slice0(Reverse(prompt), SliceMax)

\* The model ids that have an adapter.
Adapters == {"chatgpt", "googleai"}

\* A prompt one character longer than the truncation length.
LongPrompt == <<"H">> \o [i \in 1..(SliceMax - 1) |-> "x"] \o <<"i">>

\* The prompts tried with model m.  An adapter hands the prompt to the
\* provider without looking at it, so the long prompt is tried where the
\* handler itself works on the prompt.
PromptsFor(m) == IF m \in Adapters THEN Prompts ELSE Prompts \cup {LongPrompt}

\* `Simulated reply for model "${model}":\n\n${...}`
SimulatedReply(model, prompt) ==
  <<"Simulated reply for model \"", model, "\":\n\n">> \o Reversed(prompt)

\* `Simulated full response for ${model}: ${...}`
SimulatedFull(model, prompt) ==
  <<"Simulated full response for ", model, ": ">> \o Reversed(prompt)

\* The configurations of process.env: each of OPENAI_API_KEY and
\* GOOGLE_API_KEY is set or not.
Envs == [openai : BOOLEAN, google : BOOLEAN]

\* ------------------------------------------------------- the page (app.js)

\* Greatest number of characters in a response body read by the page.
MaxChars == 2

\* The models selected on the page.
ClientModels == {"chatgpt", "copilot"}

\* A character of a response body in UTF-8: "Hel" in one byte, U+00E9 in two.
Encoded == {<<"Hel">>, <<"C3", "A9">>}

RECURSIVE BodiesOf(_)
BodiesOf(k) ==
  IF k = 0 THEN {<<>>}
  ELSE LET shorter == BodiesOf(k - 1) IN shorter \cup {b \o c : b \in shorter, c \in Encoded}

\* The bodies of successful /api/chat responses: the UTF-8 encoding of the
\* text the server wrote.
ClientBodies == BodiesOf(MaxChars)

\* No task: the composer has not been submitted for this model.
NoTask == [pc |-> "none", ok |-> FALSE, body |-> <<>>, pos |-> 0, text |-> <<>>]

\* const chunk = decoder.decode(value): without { stream: true } the decoder
\* is flushed at the end of every call, so an incomplete character at the end
\* of the read becomes U+FFFD and its remaining bytes are decoded on their own.
ClientDecode(value) ==
  LET d == DecodeFrom(<<>>, value, <<>>) IN
  IF d.pending = <<>> THEN d.chars ELSE Append(d.chars, "U+FFFD")

\* ------------------------------------------------------- state

VARIABLES
  env,       \* process.env: which API keys are set
  upstream,  \* which family of response bodies the streaming provider answers with
  req,       \* req[r]: the request in slot r, NoReq before it arrives
  pc,        \* pc[r]: where the handler of r is suspended
  exit,      \* exit[r]: the path by which the handler of r finished
  res,       \* res[r]: the response of r
  provider,  \* provider[r]: status and answer text of the provider response of r
  calls,     \* calls[r]: outbound fetch calls issued for r
  logged,    \* logged[r]: console.error calls made for r
  stream,    \* stream[r]: the bytes of the provider's streamed body
  pos,       \* pos[r]: how many of them reader.read() has returned
  buf,       \* buf[r]: the relay's text buffer
  pending,   \* pending[r]: bytes the decoder holds back
  client     \* client[m]: the page's requestModelStream task for model m

vars == <<env, upstream, req, pc, exit, res, provider, calls, logged, stream, pos, buf,
          pending, client>>

\* The state of the server process.
serverVars == <<env, upstream, req, pc, exit, res, provider, calls, logged, stream, pos, buf,
                pending>>

relayVars == <<stream, pos, buf, pending>>

\* What no handler assigns: the environment of the process, the provider
\* and the page in the browser.
outside == <<env, upstream, client>>

\* No request has arrived and the page has submitted nothing.
Quiet ==
  /\ client = [m \in ClientModels |-> NoTask]
  /\ req = [r \in Reqs |-> NoReq]
  /\ pc = [r \in Reqs |-> "idle"]
  /\ exit = [r \in Reqs |-> "none"]
  /\ res = [r \in Reqs |-> FreshRes]
  /\ provider = [r \in Reqs |-> [status |-> 0, text |-> <<>>]]
  /\ calls = [r \in Reqs |-> 0]
  /\ logged = [r \in Reqs |-> 0]
  /\ stream = [r \in Reqs |-> <<>>]
  /\ pos = [r \in Reqs |-> 0]
  /\ buf = [r \in Reqs |-> <<>>]
  /\ pending = [r \in Reqs |-> <<>>]

Init ==
  /\ env \in Envs
  /\ upstream = "catalogue"
  /\ Quiet

\* Relay variables declared at module level: one set for all invocations.
ModuleScope(r) == 1

\* The invocation whose reader, decoder and buf the handler of r works on:
\* they are declared inside streamOpenAICompletion, one set per call.
Closure(r) == r

\* The handler of r finishes by the path `how`, leaving the response `rs`.
Finish(r, rs, how) ==
  /\ res' = [res EXCEPT ![r] = rs]
  /\ pc' = [pc EXCEPT ![r] = "done"]
  /\ exit' = [exit EXCEPT ![r] = how]

\* The handler of r suspends at `where`.
Await(r, where) ==
  /\ pc' = [pc EXCEPT ![r] = where]
  /\ UNCHANGED <<res, exit>>

\* catch (err) of /api/chat:
\*   if (!res.headersSent) res.status(500).json({ error: String(err) }); else res.end();
ChatCatch(rs, err) ==
  IF ~rs.headersSent THEN ResJson(ResStatus(rs, 500), "error", err) ELSE ResEnd(rs)

\* catch (err) of /api/chat-sync: return res.status(500).json({ error: String(err) });
SyncCatch(rs, err) == ResJson(ResStatus(rs, 500), "error", err)

\* An exception reaches the catch block of the handler of r.
Caught(r, endpoint, err, how) ==
  /\ Finish(r, IF endpoint = "chat" THEN ChatCatch(res[r], err)
               ELSE SyncCatch(res[r], err), how)
  /\ logged' = [logged EXCEPT ![r] = @ + 1]

\* res.setHeader('Content-Type', 'text/plain; charset=utf-8'); res.write(out); res.end();
SendPlain(rs, out) == ResEnd(ResWrite(ResSetType(rs, "text/plain"), out))

\* The handler issues fetch() and suspends.
Fetch(r, where) ==
  /\ calls' = [calls EXCEPT ![r] = @ + 1]
  /\ Await(r, where)
  /\ UNCHANGED logged

\* ------------------------------------------------------- POST /api/chat

\* The handler up to its first await.
PostChat(r) ==
  /\ pc[r] = "idle"
  /\ \E m \in Models : \E p \in PromptsFor(m) :
       /\ req' = [req EXCEPT ![r] = [endpoint |-> "chat", model |-> m, prompt |-> p]]
       /\ IF Missing(m, p)
          THEN /\ Finish(r, ResJson(ResStatus(res[r], 400), "error",
                                    <<"model and prompt are required">>), "invalid")
               /\ UNCHANGED <<calls, logged>>
          ELSE IF m = "chatgpt"
          THEN IF ~env.openai
               THEN /\ Finish(r, ResEnd(ResWrite(ResStatus(res[r], 500),
                                   <<"Missing OPENAI_API_KEY on server">>)), "nokey")
                    /\ UNCHANGED <<calls, logged>>
               ELSE Fetch(r, "stream_fetch")
          ELSE IF m = "googleai"
          THEN IF ~env.google
               THEN /\ Caught(r, "chat", <<"Error: Missing GOOGLE_API_KEY">>, "nokey")
                    /\ UNCHANGED calls
               ELSE Fetch(r, "google_fetch")
          ELSE /\ Finish(r, SendPlain(res[r], SimulatedReply(m, p)), "simulated")
               /\ UNCHANGED <<calls, logged>>
  /\ UNCHANGED <<outside, provider, relayVars>>

\* ------------------------------------------------------- POST /api/chat-sync

PostChatSync(r) ==
  /\ pc[r] = "idle"
  /\ \E m \in Models : \E p \in PromptsFor(m) :
       /\ req' = [req EXCEPT ![r] = [endpoint |-> "sync", model |-> m, prompt |-> p]]
       /\ IF Missing(m, p)
          THEN /\ Finish(r, ResJson(ResStatus(res[r], 400), "error",
                                    <<"model and prompt required">>), "invalid")
               /\ UNCHANGED <<calls, logged>>
          ELSE IF m = "chatgpt"
          THEN IF ~env.openai
               THEN /\ Caught(r, "sync", <<"Error: Missing OPENAI_API_KEY">>, "nokey")
                    /\ UNCHANGED calls
               ELSE Fetch(r, "full_fetch")
          ELSE IF m = "googleai"
          THEN IF ~env.google
               THEN /\ Caught(r, "sync", <<"Error: Missing GOOGLE_API_KEY">>, "nokey")
                    /\ UNCHANGED calls
               ELSE Fetch(r, "google_fetch")
          ELSE /\ Finish(r, ResJson(res[r], "text", SimulatedFull(m, p)), "simulated")
               /\ UNCHANGED <<calls, logged>>
  /\ UNCHANGED <<outside, provider, relayVars>>

\* ------------------------------------------------------- streamOpenAICompletion

\* await fetch(url, ...) rejects: the exception leaves streamOpenAICompletion
\* and is caught by the handler.
StreamFetchRejects(r) ==
  /\ pc[r] = "stream_fetch"
  /\ Caught(r, "chat", <<"TypeError: fetch failed">>, "transport")
  /\ UNCHANGED <<outside, req, provider, calls, relayVars>>

\* await fetch(url, ...) resolves with a response head.
StreamFetchResolves(r) ==
  /\ pc[r] = "stream_fetch"
  /\ \E s \in ProviderStatuses, hasBody \in BOOLEAN :
       /\ provider' = [provider EXCEPT ![r].status = s]
       /\ IF ~IsOk(s) \/ ~hasBody
          THEN /\ Await(r, "stream_errtext")
               /\ UNCHANGED relayVars
          ELSE /\ res' = [res EXCEPT ![r] = ResSetType(@, "text/plain")]
               /\ pc' = [pc EXCEPT ![r] = "relay"]
               /\ \E b \in Bodies(upstream) : stream' = [stream EXCEPT ![r] = b]
               /\ pos' = [pos EXCEPT ![r] = 0]
               /\ buf' = [buf EXCEPT ![Closure(r)] = <<>>]
               /\ pending' = [pending EXCEPT ![Closure(r)] = <<>>]
               /\ UNCHANGED exit
  /\ UNCHANGED <<outside, req, calls, logged>>

\* await providerResp.text().catch(()=>'<no body>') returns;
\* res.status(providerResp.status).setHeader('Content-Type','text/plain').end(`OpenAI error:\n${errText}`)
StreamErrText(r) ==
  /\ pc[r] = "stream_errtext"
  /\ \E t \in {"provider body", "<no body>"} :
       Finish(r, ResEndWith(ResSetType(ResStatus(res[r], provider[r].status), "text/plain"),
                            <<"OpenAI error:\n", t>>), "provider_error")
  /\ UNCHANGED <<outside, req, provider, calls, logged, relayVars>>

\* await reader.read() returns { done: false, value }: one iteration of the loop.
ReadChunk(r) ==
  /\ pc[r] = "relay"
  /\ \E k \in 1..(Len(stream[r]) - pos[r]) :
       /\ pos' = [pos EXCEPT ![r] = @ + k]
       /\ \E st \in {RelayRead([buf |-> buf[Closure(r)], pending |-> pending[Closure(r)],
                                 res |-> res[r], returned |-> FALSE],
                                SubSeq(stream[r], pos[r] + 1, pos[r] + k))} :
          /\ buf' = [buf EXCEPT ![Closure(r)] = st.buf]
          /\ pending' = [pending EXCEPT ![Closure(r)] = st.pending]
          /\ IF st.returned
             THEN Finish(r, Finally(st.res), "sentinel")
             ELSE /\ res' = [res EXCEPT ![r] = st.res]
                  /\ UNCHANGED <<pc, exit>>
  /\ UNCHANGED <<outside, req, provider, calls, logged, stream>>

\* await reader.read() returns { done: true }: break, then finally.
ReadDone(r) ==
  /\ pc[r] = "relay"
  /\ pos[r] = Len(stream[r])
  /\ \E st \in {OnDone([buf |-> buf[Closure(r)], pending |-> pending[Closure(r)],
                          res |-> res[r], returned |-> FALSE])} :
       /\ Finish(r, Finally(st.res), "eof")
       /\ buf' = [buf EXCEPT ![Closure(r)] = st.buf]
       /\ pending' = [pending EXCEPT ![Closure(r)] = st.pending]
  /\ UNCHANGED <<outside, req, provider, calls, logged, stream, pos>>

\* A catch block that writes an error marker into the open stream.
RelayCatchReport(rs) == ResWrite(rs, <<"[Stream error]">>)

\* A catch block that hands the error on to the handler's catch block.
RelayCatchRethrow(rs) == ChatCatch(rs, <<"Error: read failed">>)

\* catch (err) { console.error('Error while streaming OpenAI response:', err); }
\* leaves the response as it is; the console.error is counted by ReadFails.
RelayCatch(rs) == rs

\* await reader.read() rejects: catch (err) { console.error(...) }, then finally.
ReadFails(r) ==
  /\ pc[r] = "relay"
  /\ Finish(r, Finally(RelayCatch(res[r])), "read_error")
  /\ logged' = [logged EXCEPT ![r] = @ + 1]
  /\ UNCHANGED <<outside, req, provider, calls, relayVars>>

\* ------------------------------------------------------- callGoogleGenerate

\* await fetch(url, ...) rejects.
GoogleFetchRejects(r) ==
  /\ pc[r] = "google_fetch"
  /\ Caught(r, req[r].endpoint, <<"TypeError: fetch failed">>, "transport")
  /\ UNCHANGED <<outside, req, provider, calls, relayVars>>

\* await fetch(url, ...) resolves; if (!resp.ok) the body text is awaited next,
\* otherwise resp.json().
GoogleFetchResolves(r) ==
  /\ pc[r] = "google_fetch"
  /\ \E s \in ProviderStatuses :
       /\ provider' = [provider EXCEPT ![r].status = s]
       /\ Await(r, IF IsOk(s) THEN "google_json" ELSE "google_errtext")
  /\ UNCHANGED <<outside, req, calls, logged, relayVars>>

\* throw new Error(`Google API error ${resp.status}: ${t}`)
GoogleErrText(r) ==
  /\ pc[r] = "google_errtext"
  /\ Caught(r, req[r].endpoint, <<"Error: Google API error ", provider[r].status>>, "provider_error")
  /\ UNCHANGED <<outside, req, provider, calls, relayVars>>

\* await resp.json() rejects: the body is not JSON.
GoogleJsonRejects(r) ==
  /\ pc[r] = "google_json"
  /\ Caught(r, req[r].endpoint, <<"SyntaxError">>, "bad_json")
  /\ UNCHANGED <<outside, req, provider, calls, relayVars>>

\* await resp.json() returns; result = json?.candidates?.[0]?.content ?? ''.
\* /api/chat sends it as a single chunk, /api/chat-sync as { text }.
GoogleJson(r) ==
  /\ pc[r] = "google_json"
  /\ \E out \in Answers :
       /\ provider' = [provider EXCEPT ![r].text = out]
       /\ Finish(r, IF req[r].endpoint = "chat" THEN SendPlain(res[r], out)
                    ELSE ResJson(res[r], "text", out), "ok")
  /\ UNCHANGED <<outside, req, calls, logged, relayVars>>

\* ------------------------------------------------------- callOpenAICompletionFull

FullFetchRejects(r) ==
  /\ pc[r] = "full_fetch"
  /\ Caught(r, "sync", <<"TypeError: fetch failed">>, "transport")
  /\ UNCHANGED <<outside, req, provider, calls, relayVars>>

FullFetchResolves(r) ==
  /\ pc[r] = "full_fetch"
  /\ \E s \in ProviderStatuses :
       /\ provider' = [provider EXCEPT ![r].status = s]
       /\ Await(r, IF IsOk(s) THEN "full_json" ELSE "full_errtext")
  /\ UNCHANGED <<outside, req, calls, logged, relayVars>>

\* A provider error answered by issuing the call once more.
FullErrTextRetry(r) ==
  /\ pc[r] = "full_errtext"
  /\ Fetch(r, "full_fetch")
  /\ UNCHANGED <<outside, req, provider, relayVars>>

\* throw new Error(`OpenAI error ${resp.status}: ${text}`)
FullErrText(r) ==
  /\ pc[r] = "full_errtext"
  /\ Caught(r, "sync", <<"Error: OpenAI error ", provider[r].status>>, "provider_error")
  /\ UNCHANGED <<outside, req, provider, calls, relayVars>>

FullJsonRejects(r) ==
  /\ pc[r] = "full_json"
  /\ Caught(r, "sync", <<"SyntaxError">>, "bad_json")
  /\ UNCHANGED <<outside, req, provider, calls, relayVars>>

\* content = json.choices?.[0]?.message?.content ?? ''; res.json({ text })
FullJson(r) ==
  /\ pc[r] = "full_json"
  /\ \E content \in Answers :
       /\ provider' = [provider EXCEPT ![r].text = content]
       /\ Finish(r, ResJson(res[r], "text", content), "ok")
  /\ UNCHANGED <<outside, req, calls, logged, relayVars>>

\* ------------------------------------------------------- specification

Step(r) ==
  \/ PostChat(r)
  \/ PostChatSync(r)
  \/ StreamFetchRejects(r)
  \/ StreamFetchResolves(r)
  \/ StreamErrText(r)
  \/ ReadChunk(r)
  \/ ReadDone(r)
  \/ ReadFails(r)
  \/ GoogleFetchRejects(r)
  \/ GoogleFetchResolves(r)
  \/ GoogleErrText(r)
  \/ GoogleJsonRejects(r)
  \/ GoogleJson(r)
  \/ FullFetchRejects(r)
  \/ FullFetchResolves(r)
  \/ FullErrText(r)
  \/ FullJsonRejects(r)
  \/ FullJson(r)

\* One request, in slot 1.
Next == Step(1)

Spec == Init /\ [][Next]_vars

\* The steps that resume a suspended handler: the returns of the provider
\* calls and reads it awaits.
Resume(r) ==
  \/ StreamFetchRejects(r)
  \/ StreamFetchResolves(r)
  \/ StreamErrText(r)
  \/ ReadFails(r)
  \/ ReadDone(r)
  \/ ReadChunk(r)
  \/ GoogleFetchRejects(r)
  \/ GoogleFetchResolves(r)
  \/ GoogleErrText(r)
  \/ GoogleJsonRejects(r)
  \/ GoogleJson(r)
  \/ FullFetchRejects(r)
  \/ FullFetchResolves(r)
  \/ FullErrText(r)
  \/ FullJsonRejects(r)
  \/ FullJson(r)

\* Every pending provider call and provider read eventually returns or
\* fails, and the event loop then runs the handler's continuation.
FairSpec == Spec /\ WF_vars(Resume(1))

\* ------------------------------------------------------- requestModelStream

\* The composer's submit handler: in multi mode one container and one
\* requestModelStream call per selected model, started together; otherwise
\* one for the single model.  Each call runs up to its await fetch().
Submit ==
  /\ \A m \in ClientModels : client[m].pc = "none"
  /\ \E targets \in (SUBSET ClientModels) \ {{}} :
       client' = [m \in ClientModels |->
                    IF m \in targets THEN [NoTask EXCEPT !.pc = "fetch"] ELSE client[m]]
  /\ UNCHANGED serverVars

\* await fetch('/api/chat') rejects: catch (err) appends the error marker.
ClientFetchRejects(m) ==
  /\ client[m].pc = "fetch"
  /\ client' = [client EXCEPT ![m].pc = "done",
                               ![m].text = @ \o <<"\n\n[Stream error]">>]
  /\ UNCHANGED serverVars

\* await fetch('/api/chat') resolves: if (!resp.ok) the error text is
\* appended and the task returns; otherwise the body is read.
ClientFetchResolves(m) ==
  /\ client[m].pc = "fetch"
  /\ \/ client' = [client EXCEPT ![m].pc = "done", ![m].text = @ \o <<"\n\n[Error]">>]
     \/ \E b \in ClientBodies :
          client' = [client EXCEPT ![m].pc = "read", ![m].body = b]
  /\ UNCHANGED serverVars

\* await reader.read() returns a value: bodyEl.textContent += decoder.decode(value)
ClientRead(m) ==
  /\ client[m].pc = "read"
  /\ \E k \in 1..(Len(client[m].body) - client[m].pos) :
       client' = [client EXCEPT
                    ![m].pos = @ + k,
                    ![m].text = @ \o ClientDecode(SubSeq(client[m].body, client[m].pos + 1,
                                                          client[m].pos + k))]
  /\ UNCHANGED serverVars

\* await reader.read() returns { done: true }: the loop ends.
ClientReadDone(m) ==
  /\ client[m].pc = "read"
  /\ client[m].pos = Len(client[m].body)
  /\ client' = [client EXCEPT ![m].pc = "done", ![m].ok = TRUE]
  /\ UNCHANGED serverVars

\* await reader.read() rejects: catch (err) appends the error marker.
ClientReadFails(m) ==
  /\ client[m].pc = "read"
  /\ client' = [client EXCEPT ![m].pc = "done",
                               ![m].text = @ \o <<"\n\n[Stream error]">>]
  /\ UNCHANGED serverVars

ClientStep(m) ==
  \/ ClientFetchRejects(m)
  \/ ClientFetchResolves(m)
  \/ ClientRead(m)
  \/ ClientReadDone(m)
  \/ ClientReadFails(m)

\* The page: one submit, then the tasks' continuations in any order.
ClientNext == Submit \/ \E m \in ClientModels : ClientStep(m)

ClientInit ==
  /\ env = [openai |-> TRUE, google |-> TRUE]
  /\ upstream = "catalogue"
  /\ Quiet

ClientSpec == ClientInit /\ [][ClientNext]_vars

\* Requests in flight at once: the event loop runs one continuation at a
\* time, of any request, in any order.
ConcInit ==
  /\ env \in Envs
  /\ upstream = "pair"
  /\ Quiet

ConcNext == \E r \in Reqs : Step(r)

ConcSpec == ConcInit /\ [][ConcNext]_vars

\* One request against a provider of the delta family.
DeltaInit ==
  /\ env \in Envs
  /\ upstream = "delta"
  /\ Quiet

DeltaSpec == DeltaInit /\ [][Next]_vars

\* ------------------------------------------------------- what a stream says

\* What the provider stream means, read off the whole decoded text at once:
\* the frames are the segments followed by a blank line, the payloads are
\* what follows "data:" on their data lines, and the stream's fragments are
\* the non-empty texts of the payloads that precede the first sentinel.

\* The response as streamOpenAICompletion has prepared it when the loop starts.
RelayStart ==
  [buf |-> <<>>, pending |-> <<>>, res |-> ResSetType(FreshRes, "text/plain"),
   returned |-> FALSE]

DecodeAll(bytes) == DecodeFrom(<<>>, bytes, <<>>).chars

CompleteFrames(text) == Front(SplitFrames(text))

RECURSIVE PayloadsOfLines(_)
PayloadsOfLines(lines) ==
  IF lines = <<>> THEN <<>>
  ELSE (IF StartsWithData(Head(lines)) THEN <<StripData(Head(lines))>> ELSE <<>>)
       \o PayloadsOfLines(Tail(lines))

RECURSIVE DataPayloads(_)
DataPayloads(frames) ==
  IF frames = <<>> THEN <<>>
  ELSE PayloadsOfLines(SplitLines(Head(frames))) \o DataPayloads(Tail(frames))

RECURSIVE BeforeSentinel(_)
BeforeSentinel(payloads) ==
  IF payloads = <<>> \/ Head(payloads) = Sentinel THEN <<>>
  ELSE <<Head(payloads)>> \o BeforeSentinel(Tail(payloads))

HasSentinel(payloads) == \E i \in 1..Len(payloads) : payloads[i] = Sentinel

TextOf(payload) == ExtractText(ParseJSON(payload))

WellFormed(payload) == ParseJSON(payload).ok /\ TextOf(payload) # <<>>

Malformed(payload) == ~ParseJSON(payload).ok

RECURSIVE FragmentsOf(_)
FragmentsOf(payloads) ==
  IF payloads = <<>> THEN <<>>
  ELSE (IF WellFormed(Head(payloads)) THEN <<TextOf(Head(payloads))>> ELSE <<>>)
       \o FragmentsOf(Tail(payloads))

Payloads(bytes) == DataPayloads(CompleteFrames(DecodeAll(bytes)))

Expected(bytes) == FragmentsOf(BeforeSentinel(Payloads(bytes)))

\* The bytes of the provider stream that the reads of r have returned so far.
Delivered(r) == SubSeq(stream[r], 1, pos[r])

\* The relay of r has left its loop by the sentinel or by end of stream.
Relayed(r) == pc[r] = "done" /\ exit[r] \in {"sentinel", "eof"}

\* ------------------------------------------------------- C1

\* C1: chunking invariance of the relay.  However the provider bytes are
\* split into reads, the texts written to the client are those written when
\* the same bytes arrive in a single read: in the loop, the writes, the
\* retained buffer and the decoder state are those of one read of the bytes
\* delivered so far; once the relay has finished, the writes are those of one
\* read of the whole stream.
ChunkingInvariance ==
  \A r \in Reqs :
    /\ pc[r] = "relay" =>
         LET one == RelayRead(RelayStart, Delivered(r)) IN
         /\ res[r].writes = one.res.writes
         /\ buf[r] = one.buf
         /\ pending[r] = one.pending
    /\ Relayed(r) => res[r].writes = RelayRead(RelayStart, stream[r]).res.writes

\* A read boundary fell inside the two-byte character of a payload, after a
\* fragment had already been written.
ChunkingWitness ==
  \E r \in Reqs : pc[r] = "relay" /\ pending[r] # <<>> /\ res[r].writes # <<>>

\* ------------------------------------------------------- C2

\* C2: order and uniqueness of fragments.  When the relay has finished by
\* the sentinel or by end of stream, the res.write calls are, in order and
\* one for one, the non-empty texts of the data lines of the complete frames
\* that precede the sentinel, and the response is ended.
FragmentsInOrder ==
  \A r \in Reqs : Relayed(r) => res[r].writes = Expected(stream[r]) /\ res[r].ended

\* Two fragment frames and the sentinel frame: two writes, then close.
FragmentsWitness ==
  \E r \in Reqs :
    /\ Relayed(r)
    /\ exit[r] = "sentinel"
    /\ stream[r] = LineHel \o <<"LF", "LF">> \o LineMsg \o <<"LF", "LF">>
                   \o LineDone \o <<"LF", "LF">>
    /\ res[r].writes = << <<"Hel">>, <<"U+00E9">> >>
    /\ Flatten(res[r].writes) = <<"Hel", "U+00E9">>
    /\ res[r].ended

\* ------------------------------------------------------- C3

\* The sentinel is among the payloads of the complete frames delivered to r.
SentinelDelivered(r) == pc[r] \in {"relay", "done"} /\ HasSentinel(Payloads(Delivered(r)))

\* C3 as stated: once the sentinel has been delivered no read is pending
\* and the close operation has been invoked exactly one time.
SentinelClosesOnce ==
  \A r \in Reqs :
    SentinelDelivered(r) => pc[r] = "done" /\ res[r].ended /\ res[r].endCalls = 1

\* C3 as amended: once the sentinel has been delivered the handler has
\* returned (no read is pending and none is issued), the response is ended,
\* nothing was written to it after it was ended, and res.end has been invoked
\* twice: by the sentinel branch, and again by the finally block, where it
\* is a no-op.  This holds whatever was read after the sentinel frame.
SentinelStopsAndCloses ==
  \A r \in Reqs :
    SentinelDelivered(r) =>
      /\ pc[r] = "done"
      /\ exit[r] = "sentinel"
      /\ res[r].ended
      /\ res[r].endCalls = 2
      /\ ~res[r].writeAfterEnd
      /\ res[r].writes = Expected(Delivered(r))

\* The read that brought the sentinel frame brought further bytes with it.
SentinelWitness ==
  \E r \in Reqs : SentinelDelivered(r) /\ exit[r] = "sentinel" /\ buf[r] # <<>>

\* ------------------------------------------------------- C4

\* The text /api/chat-sync returns for the request of r against the same
\* provider fixture: for chatgpt the fixture's full message is the answer it
\* streams, for googleai it is the answer read from the provider's JSON.
SyncText(r) ==
  IF req[r].model = "chatgpt" THEN Flatten(Expected(stream[r]))
  ELSE IF req[r].model = "googleai" THEN provider[r].text
  ELSE SimulatedFull(req[r].model, req[r].prompt)

\* C4: equivalence of the endpoints.  What a successful /api/chat request
\* has written, concatenated in order, is the text of /api/chat-sync for the
\* same model and prompt.
EndpointsAgree ==
  \A r \in Reqs :
    (pc[r] = "done" /\ req[r].endpoint = "chat"
       /\ exit[r] \in {"sentinel", "eof", "ok", "simulated"})
    => Flatten(res[r].writes) = SyncText(r)

\* ------------------------------------------------------- C5

Is2xx(code) == code >= 200 /\ code <= 299

Is4xx5xx(code) == code >= 400 /\ code <= 599

Is5xx(code) == code >= 500 /\ code <= 599

\* The body reports an error.
ErrorBody(rs) ==
  \/ rs.json.kind = "error"
  \/ \E i \in 1..Len(rs.writes) : rs.writes[i] = <<"Missing OPENAI_API_KEY on server">>
  \/ (rs.endData # <<>> /\ rs.endData[1] = "OpenAI error:\n")

\* The body is a JSON object { error: ... } and nothing else.
StructuredError(rs) ==
  /\ rs.json.kind = "error"
  /\ rs.ctype = "application/json"
  /\ rs.writes = <<>>
  /\ rs.endData = <<>>

ValidReq(r) == req[r].model # "" /\ req[r].prompt # <<>>

\* C5: outcome dichotomy.  A finished request with non-empty model and
\* prompt has either a 2xx status and a body that is no error, or a 4xx/5xx
\* status and a structured JSON error.
OutcomeDichotomy ==
  \A r \in Reqs :
    (pc[r] = "done" /\ ValidReq(r)) =>
      \/ Is2xx(res[r].statusCode) /\ ~ErrorBody(res[r])
      \/ Is4xx5xx(res[r].statusCode) /\ StructuredError(res[r])

\* ------------------------------------------------------- C6

\* C6: a failure of /api/chat before any response byte was written (missing
\* key, non-success provider status, transport failure of the provider call)
\* is reported as a structured JSON error with a 5xx status.
PreStreamFailureStructured ==
  \A r \in Reqs :
    (pc[r] = "done" /\ req[r].endpoint = "chat"
       /\ exit[r] \in {"nokey", "provider_error", "transport"})
    => StructuredError(res[r]) /\ Is5xx(res[r].statusCode)

\* ------------------------------------------------------- C7

\* C7: guaranteed termination.  The response of every /api/chat request that
\* passed validation is eventually ended, and no finished handler leaves its
\* response open.
StreamTerminates ==
  /\ \A r \in Reqs : (req[r].endpoint = "chat" /\ ValidReq(r)) ~> res[r].ended
  /\ [](\A r \in Reqs : pc[r] = "done" => res[r].ended)

\* The provider stream ended without a sentinel and the response was ended.
TerminatesWitness ==
  \E r \in Reqs :
    /\ req[r].endpoint = "chat" /\ exit[r] = "eof"
    /\ ~HasSentinel(Payloads(stream[r]))
    /\ res[r].writes # <<>> /\ res[r].ended

\* ------------------------------------------------------- C8

\* Payloads i, i+1, i+2 are a well-formed, a malformed and a well-formed one.
Sandwich(ps, i) == WellFormed(ps[i]) /\ Malformed(ps[i + 1]) /\ WellFormed(ps[i + 2])

\* C8: a malformed payload does not suppress its neighbours.  When the relay
\* has finished, for every malformed payload lying between two well-formed
\* ones (before the sentinel), the fragments of the two neighbours were
\* written, in order and next to each other, at the place the earlier
\* fragments give them.
MalformedSkipped ==
  \A r \in Reqs :
    Relayed(r) =>
      LET ps == BeforeSentinel(Payloads(stream[r])) IN
      \A i \in 1..(Len(ps) - 2) :
        Sandwich(ps, i) =>
          LET n == Len(FragmentsOf(SubSeq(ps, 1, i - 1))) IN
          /\ Len(res[r].writes) >= n + 2
          /\ res[r].writes[n + 1] = TextOf(ps[i])
          /\ res[r].writes[n + 2] = TextOf(ps[i + 2])
          /\ res[r].statusCode = 200

\* A malformed data line between two well-formed ones of the same frame.
MalformedWitness ==
  \E r \in Reqs :
    /\ Relayed(r)
    /\ stream[r] = LineHel \o <<"LF">> \o LineBad \o <<"LF">> \o LineMsg \o <<"LF", "LF">>
    /\ Sandwich(BeforeSentinel(Payloads(stream[r])), 1)
    /\ res[r].writes = << <<"Hel">>, <<"U+00E9">> >>

\* ------------------------------------------------------- C9

\* C9: closed is terminal.  No res.write is made on an ended response: none
\* within a step, and no later step adds a write or reopens the response.
ClosedIsTerminal ==
  /\ [](\A r \in Reqs : ~res[r].writeAfterEnd)
  /\ [][\A r \in Reqs : res[r].ended =>
          res'[r].ended /\ res'[r].writes = res[r].writes]_vars

\* The response was ended by the sentinel while a later frame of the same
\* read still carried a fragment.
ClosedWitness ==
  \E r \in Reqs :
    /\ exit[r] = "sentinel" /\ res[r].ended
    /\ Len(FragmentsOf(Payloads(Delivered(r)))) > Len(res[r].writes)

\* ------------------------------------------------------- C10

Streaming(r) == req[r].endpoint = "chat" /\ req[r].model = "chatgpt"

\* C10 as stated: status and headers are committed as soon as the request is
\* dispatched to the streaming adapter.
OpensOnDispatch ==
  \A r \in Reqs :
    (Streaming(r) /\ pc[r] \in {"stream_fetch", "stream_errtext", "relay"})
    => res[r].headersSent

\* C10 as amended: while the streaming handler is suspended, status and
\* headers are committed exactly when a fragment has been written, hence not
\* before the provider's response head and a first read have arrived; and a
\* finished handler has ended the response.
HeadersWithFirstFragment ==
  \A r \in Reqs :
    Streaming(r) =>
      /\ pc[r] \in {"stream_fetch", "stream_errtext", "relay"} =>
           /\ res[r].headersSent <=> res[r].writes # <<>>
           /\ res[r].headersSent => pc[r] = "relay" /\ pos[r] > 0
           /\ ~res[r].ended
      /\ pc[r] = "done" => res[r].ended /\ res[r].headersSent

\* Provider bytes have arrived and nothing is committed to the client yet.
HeadersWitness ==
  \E r \in Reqs :
    Streaming(r) /\ pc[r] = "relay" /\ pos[r] > 0 /\ ~res[r].headersSent

\* ------------------------------------------------------- C11

\* The error bodies of the two validation branches.
ValidationMessages == {<<"model and prompt are required">>, <<"model and prompt required">>}

\* The handler of r answered 400 with a validation message.
Rejected(r) ==
  /\ res[r].statusCode = 400
  /\ res[r].json.kind = "error"
  /\ res[r].json.val \in ValidationMessages

\* C11: validation.  On both endpoints a request whose model or prompt is
\* absent or empty is answered, before the handler suspends anywhere, with
\* status 400 and a JSON error body, no provider call and nothing written;
\* a request with both fields non-empty is never answered that way.
ValidationRejects ==
  \A r \in Reqs :
    req[r].endpoint # "none" =>
      IF req[r].model = "" \/ req[r].prompt = <<>>
      THEN /\ pc[r] = "done"
           /\ Rejected(r)
           /\ StructuredError(res[r])
           /\ res[r].ended
           /\ calls[r] = 0
           /\ provider[r].status = 0
      ELSE ~Rejected(r) /\ exit[r] # "invalid"

\* A model that has its key, and an empty prompt, on each endpoint.
ValidationWitness ==
  \E r \in Reqs :
    /\ req[r].model = "chatgpt" /\ req[r].prompt = <<>> /\ env.openai
    /\ Rejected(r) /\ calls[r] = 0 /\ res[r].writes = <<>>

\* ------------------------------------------------------- C12

\* The text the client of r received: the chunks in order, or the text
\* member of the JSON answer.
ReceivedText(r) ==
  IF req[r].endpoint = "chat" THEN Flatten(res[r].writes) ELSE res[r].json.val

\* The number of prompt characters the fallback keeps.
Kept(prompt) == IF Len(prompt) < 800 THEN Len(prompt) ELSE 800

\* C12: unknown-model fallback.  For a model id without adapter and a
\* non-empty prompt, each endpoint answers at once with a 2xx status, no
\* provider call and no error; the text is a non-empty heading that names
\* the model, followed by the first 800 characters of the prompt read
\* backwards (all of them when the prompt is shorter).
UnknownModelFallback ==
  \A r \in Reqs :
    (req[r].endpoint # "none" /\ ValidReq(r) /\ req[r].model \notin {"chatgpt", "googleai"}) =>
      LET text == ReceivedText(r)
          prompt == req[r].prompt
          n == Kept(prompt)
      IN
      /\ pc[r] = "done" /\ res[r].ended
      /\ Is2xx(res[r].statusCode)
      /\ ~ErrorBody(res[r])
      /\ calls[r] = 0
      /\ IF req[r].endpoint = "chat" THEN Len(res[r].writes) = 1
         ELSE res[r].json.kind = "text"
      /\ Len(text) = 3 + n
      /\ text[2] = req[r].model
      /\ \A i \in 1..n : text[3 + i] = prompt[Len(prompt) + 1 - i]

\* A prompt of 801 characters: the fallback ends with the prompt's second
\* character, the first one being cut off.
FallbackWitness ==
  \E r \in Reqs :
    /\ req[r].model = "copilot" /\ req[r].endpoint = "chat" /\ pc[r] = "done"
    /\ Len(req[r].prompt) = 801
    /\ Len(ReceivedText(r)) = 803
    /\ ReceivedText(r)[4] = "i"
    /\ ReceivedText(r)[803] = "x"

\* ------------------------------------------------------- C13

\* What one read of the bytes delivered to r writes.
WrittenSoFar(r) == RelayRead(RelayStart, Delivered(r)).res.writes

\* C13: errors after streaming has begun.  When a provider read fails after
\* at least one fragment was written, the step that handles the failure
\* writes nothing and logs the error once, and the response is left ended
\* with exactly the fragments written before the failure: no JSON error, no
\* text passed to res.end, the status as it was committed.
ErrorAfterStreaming ==
  /\ [](\A r \in Reqs :
          (exit[r] = "read_error" /\ res[r].writes # <<>>) =>
            /\ res[r].ended
            /\ res[r].writes = WrittenSoFar(r)
            /\ res[r].json = NoJson
            /\ res[r].endData = <<>>
            /\ ~res[r].writeAfterEnd
            /\ res[r].statusCode = 200
            /\ logged[r] = 1)
  /\ [][\A r \in Reqs :
          (pc[r] = "relay" /\ res[r].writes # <<>> /\ exit'[r] = "read_error") =>
            /\ res'[r].writes = res[r].writes
            /\ res'[r].ended
            /\ logged'[r] = logged[r] + 1]_vars

\* A read failed after two fragments, with provider bytes still unread and
\* a partial frame in the buffer.
ErrorAfterStreamingWitness ==
  \E r \in Reqs :
    /\ exit[r] = "read_error"
    /\ Len(res[r].writes) = 2
    /\ pos[r] < Len(stream[r])
    /\ buf[r] # <<>>
    /\ res[r].ended

\* ------------------------------------------------------- C19

\* C19: read errors are swallowed inside the relay.  After a failed provider
\* read the handler's catch block has not run (no 500, no JSON body, one
\* console.error, one res.end): the response is ended by the finally block
\* with the fragments written so far, and when there are none the client has
\* status 200 and an empty text/plain body.
ReadErrorSwallowed ==
  \A r \in Reqs :
    exit[r] = "read_error" =>
      /\ pc[r] = "done"
      /\ res[r].ended
      /\ res[r].endCalls = 1
      /\ logged[r] = 1
      /\ res[r].json.kind = "none"
      /\ res[r].ctype = "text/plain"
      /\ res[r].writes = WrittenSoFar(r)
      /\ Is2xx(res[r].statusCode)
      /\ ~ErrorBody(res[r])
      /\ res[r].writes = <<>> => res[r].endData = <<>> /\ res[r].statusCode = 200

\* The very first read failed: status 200 and an empty body.
ReadErrorWitness ==
  \E r \in Reqs :
    /\ exit[r] = "read_error"
    /\ pos[r] = 0 /\ stream[r] # <<>>
    /\ res[r].writes = <<>> /\ res[r].endData = <<>>
    /\ res[r].statusCode = 200 /\ res[r].headersSent

\* ------------------------------------------------------- C14

\* Everything that belongs to request r.
Own(r) ==
  <<req[r], pc[r], exit[r], res[r], provider[r], calls[r], logged[r],
    stream[r], pos[r], buf[r], pending[r]>>

\* C14: request isolation.  With two requests in flight and their steps
\* interleaved in any order, every step changes the state of one request
\* only, and each request is at every moment where it would be alone: in the
\* loop its writes, buffer and decoder state are those of its own delivered
\* bytes, its response is ended exactly when its handler has finished, and
\* after a sentinel, an end of stream or a read error its writes are those
\* of its own stream, whatever happened to the other request.
RequestIsolation ==
  /\ [](\A r \in Reqs :
          /\ pc[r] = "relay" =>
               LET one == RelayRead(RelayStart, Delivered(r)) IN
               /\ res[r].writes = one.res.writes
               /\ buf[r] = one.buf
               /\ pending[r] = one.pending
          /\ Relayed(r) => res[r].writes = Expected(stream[r])
          /\ exit[r] = "read_error" => res[r].writes = WrittenSoFar(r)
          /\ res[r].ended <=> pc[r] = "done")
  /\ [][\E r \in Reqs : \A q \in Reqs \ {r} : Own(q)' = Own(q)]_vars

\* One request has failed in mid-stream while the other, reading a different
\* body, is in its loop with a fragment written and half a character held by
\* its decoder.
IsolationWitness ==
  \E r \in Reqs, q \in Reqs :
    /\ r # q
    /\ exit[r] = "read_error" /\ res[r].writes # <<>> /\ buf[r] # <<>>
    /\ pc[q] = "relay" /\ stream[q] # stream[r]
    /\ res[q].writes # <<>> /\ pending[q] # <<>>

\* ------------------------------------------------------- C15

\* The API key the adapter of model m reads is set.
KeySet(m) == IF m = "chatgpt" THEN env.openai ELSE env.google

\* C15: the missing credential precedes the network.  For a request that
\* entered an adapter (streamOpenAICompletion, callOpenAICompletionFull or
\* callGoogleGenerate): without the adapter's key no outbound call was
\* issued, no provider response exists and the request has failed; with the
\* key exactly one call has been issued, at every later moment, a provider
\* error included.  A request that entered no adapter issued no call.
OneCallPerInvocation ==
  \A r \in Reqs :
    IF req[r].endpoint # "none" /\ ValidReq(r) /\ req[r].model \in {"chatgpt", "googleai"}
    THEN IF KeySet(req[r].model)
         THEN calls[r] = 1
         ELSE /\ calls[r] = 0
              /\ provider[r].status = 0
              /\ pc[r] = "done"
              /\ res[r].statusCode = 500
              /\ ErrorBody(res[r])
    ELSE calls[r] = 0

\* A provider error on /api/chat-sync with one key set and the other not:
\* one call was issued and the request has finished.
OneCallWitness ==
  \E r \in Reqs :
    /\ req[r].endpoint = "sync" /\ req[r].model = "chatgpt"
    /\ env.openai /\ ~env.google
    /\ pc[r] = "done" /\ exit[r] = "provider_error"
    /\ ~IsOk(provider[r].status)
    /\ calls[r] = 1

\* ------------------------------------------------------- C16

\* The payloads of every data line of the stream, those of the segment after
\* the last frame delimiter included.
AllPayloads(bytes) == DataPayloads(SplitFrames(DecodeAll(bytes)))

\* C16: nothing is emitted after the sentinel.  Once the relay has left by
\* the sentinel, what it wrote are the fragments of the data lines before
\* the first sentinel of the provider's stream and nothing else: no
\* fragment of a later line of the sentinel's frame, of a later frame, of
\* the retained buffer or of the unread input; no write was attempted on the
\* ended response; and from then on nothing is read, written or taken from
\* the buffer.
NothingAfterSentinel ==
  /\ [](\A r \in Reqs :
          exit[r] = "sentinel" =>
            /\ res[r].writes = FragmentsOf(BeforeSentinel(AllPayloads(stream[r])))
            /\ ~res[r].writeAfterEnd
            /\ res[r].ended)
  /\ [][\A r \in Reqs :
          exit[r] = "sentinel" =>
            res'[r] = res[r] /\ pos'[r] = pos[r] /\ buf'[r] = buf[r]]_vars

\* The sentinel came first, with a fragment line after it in its own frame;
\* part of the next frame is in the retained buffer and the rest is unread.
AfterSentinelWitness ==
  \E r \in Reqs :
    /\ exit[r] = "sentinel"
    /\ stream[r] = LineDone \o <<"LF">> \o LineHel \o <<"LF", "LF">> \o LineHel \o <<"LF", "LF">>
    /\ buf[r] # <<>>
    /\ pos[r] < Len(stream[r])
    /\ res[r].writes = <<>>
    /\ Len(FragmentsOf(AllPayloads(stream[r]))) = 2

\* ------------------------------------------------------- C17

\* The payload has a member `key` ("d": delta.content, "m": message.content).
HasMember(payload, key) == \E i \in 1..Len(payload) : payload[i] = key

\* The text that follows the member `key` in the payload.
MemberText(payload, key) ==
  TextRun(Drop(payload, CHOOSE i \in 1..Len(payload) : payload[i] = key))

\* The text C17 assigns to a payload, read off the payload itself:
\* delta.content when the payload has it, empty or not; otherwise
\* message.content when the payload has it; otherwise nothing.
ClaimedText(payload) ==
  IF HasMember(payload, "d") THEN MemberText(payload, "d")
  ELSE IF HasMember(payload, "m") THEN MemberText(payload, "m")
  ELSE <<>>

\* One write per parsed payload with a non-empty claimed text, in order.
RECURSIVE ClaimedWrites(_)
ClaimedWrites(payloads) ==
  IF payloads = <<>> THEN <<>>
  ELSE (IF ParseJSON(Head(payloads)).ok /\ ClaimedText(Head(payloads)) # <<>>
        THEN <<ClaimedText(Head(payloads))>> ELSE <<>>)
       \o ClaimedWrites(Tail(payloads))

\* C17: delta-versus-message extraction.  At every moment of the loop and
\* after it, the writes are, one per payload and in order, the texts of the
\* parsed payloads of the frames delivered so far: delta.content when the
\* payload has that member, even an empty one, message.content otherwise;
\* a payload whose text is empty causes no write.  Each fragment is thus
\* written in the read that completes its frame.
DeltaBeforeMessage ==
  \A r \in Reqs :
    (pc[r] = "relay" \/ exit[r] \in {"sentinel", "eof", "read_error"}) =>
      res[r].writes = ClaimedWrites(BeforeSentinel(Payloads(Delivered(r))))

\* An empty delta text next to a message text: no write; then a delta
\* without content member next to a message text: the message text.
DeltaWitness ==
  \E r \in Reqs :
    /\ pc[r] = "relay"
    /\ Delivered(r) = LineEmptyDelta \o <<"LF", "LF">> \o LineNoContent \o <<"LF", "LF">>
    /\ res[r].writes = << <<"lo">> >>

\* ------------------------------------------------------- C18

\* What follows the last frame delimiter of the stream.
FinalSegment(bytes) == Last(SplitFrames(DecodeAll(bytes)))

\* The fragments the data lines of a text would give.
FragmentsOfText(text) == FragmentsOf(BeforeSentinel(PayloadsOfLines(SplitLines(text))))

\* C18: the unterminated final frame is lost.  When the provider stream has
\* ended without the sentinel, the segment after the last frame delimiter is
\* still in the buffer, unparsed, and the fragments of its data lines are
\* exactly what the writes lack: the writes followed by the fragments of
\* that segment are the fragments of all data lines of the stream.
UnterminatedLost ==
  \A r \in Reqs :
    exit[r] = "eof" =>
      /\ buf[r] = FinalSegment(stream[r])
      /\ res[r].writes \o FragmentsOfText(buf[r])
           = FragmentsOf(BeforeSentinel(AllPayloads(stream[r])))
      /\ Len(res[r].writes) + Len(FragmentsOfText(FinalSegment(stream[r])))
           = Len(FragmentsOf(BeforeSentinel(AllPayloads(stream[r]))))
      /\ res[r].ended

\* A frame, then a complete well-formed data line ended by one newline
\* only: its text is not written.
UnterminatedWitness ==
  \E r \in Reqs :
    /\ exit[r] = "eof"
    /\ stream[r] = LineHel \o <<"LF", "LF">> \o LineMsg \o <<"LF">>
    /\ res[r].writes = << <<"Hel">> >>
    /\ FragmentsOfText(buf[r]) = << <<"U+00E9">> >>

\* ------------------------------------------------------- C20

\* C20: client-side reassembly.  When requestModelStream has read a
\* successful response to its end, the text in the model's container is the
\* decoding of the whole response body, however the body was split into
\* reads.
ClientReassembles ==
  \A m \in ClientModels :
    (client[m].pc = "done" /\ client[m].ok) => client[m].text = DecodeAll(client[m].body)

=============================================================================
